---- MODULE Spec2Model ----
(***************************************************************************)
(* The scraping core of inditex_tracker: the shared Playwright browser     *)
(* singleton (lib/scraper/browser.ts), the orchestrator scrapeProduct /    *)
(* scrapeProducts (lib/scraper/index.ts) and the two route handlers that   *)
(* call them in one Node process (GET /api/cron, POST /api/scrape).        *)
(*                                                                         *)
(* Every handler is an async function.  A step of the model is one awaited *)
(* call of the orchestrator or of a handler (createContext, createPage,    *)
(* navigateWithStealth, page.content, closeContext, the storage calls,     *)
(* randomDelay) together with the synchronous code up to the next one;     *)
(* getBrowser and closeBrowser, which read and write the singleton, are    *)
(* split at their own await.  The hand-over of a value from an async       *)
(* callee to its awaiting caller is part of the callee's last step.  Every *)
(* external call may fail, which the model draws with \E.                  *)
(***************************************************************************)
EXTENDS Integers, Sequences, FiniteSets, TLC

(* ------------------------------ bounds -------------------------------- *)
\* longest batch the cron handler refreshes
MaxUrls == 2
\* Browser objects that can be referenced at one time
MaxBrowsers == 3
\* persists made on the storage gateway
MaxPersists == 3
\* pieces a price text is put together from
MaxPricePieces == 4
\* pieces a discount text is put together from
MaxDiscountPieces == 4
\* digits in one text
MaxDigits == 8
\* the size elements of a page
MaxItems == 2
\* calls one caller makes on the browser module
MaxCalls == 4
\* values Math.random() is drawn from: k / RandomSteps, k < RandomSteps
RandomSteps == 4

(* ----------------------------- constants ------------------------------ *)
\* `let browserInstance: Browser | null = null`: no browser
NoBrowser == 0
\* SELECTORS.name has four candidates
NumNameSelectors == 4

\* The requests in flight: one GET /api/cron and, beside it, one
\* POST /api/scrape.
Cron == 0
Post == 1
Posts == {Post}
Procs == {Cron} \cup Posts
BrowserIds == 1..MaxBrowsers

(* ------------------------------- URLs --------------------------------- *)
\* A URL is what the code looks at: the retailer domain its hostname holds,
\* the retailer domain the rest of the URL (path, query) holds, and whether
\* the path has the product pattern -p<digits>.html.
Brands == <<"zara", "bershka", "pullandbear", "massimodutti">>
BrandSet == {Brands[k] : k \in 1..Len(Brands)}
NoStore == "null"

ZaraProductUrl == [host |-> "zara", rest |-> "none", product |-> TRUE]
BershkaUrl == [host |-> "bershka", rest |-> "none", product |-> TRUE]
UnknownUrl == [host |-> "none", rest |-> "none", product |-> TRUE]
UrlPool == {ZaraProductUrl, BershkaUrl, UnknownUrl}
\* a zara.com page that is no product page, and a URL of another host with
\* zara.com in its path
ZaraOtherUrl == [host |-> "zara", rest |-> "none", product |-> FALSE]
ZaraInPathUrl == [host |-> "none", rest |-> "zara", product |-> TRUE]
\* what a client can post to /api/scrape
PostUrlPool == UrlPool \cup {ZaraOtherUrl, ZaraInPathUrl}

\* lowerUrl.includes(domain), tried in the order zara, bershka, pullandbear,
\* massimodutti over the whole URL string
RECURSIVE FirstBrandIn(_, _)
FirstBrandIn(u, k) ==
  IF k > Len(Brands) THEN NoStore
  ELSE IF u.host = Brands[k] \/ u.rest = Brands[k] THEN Brands[k]
  ELSE FirstBrandIn(u, k + 1)

detectStore(u) == FirstBrandIn(u, 1)

\* hostname.includes('zara.com') && /-p\d+\.html/.test(pathname)
isValidZaraUrl(u) == u.host = "zara" /\ u.product

\* a registry whose every parser accepts every URL
AcceptsEveryUrl(store, u) == TRUE

\* PARSERS[store].isValidUrl: the three unimplemented parsers answer false
isValidUrl(store, u) == IF store = "zara" THEN isValidZaraUrl(u) ELSE FALSE

(* ------------------------------- HTML --------------------------------- *)
\* A page is what the name extraction reads: the index of the first name
\* selector that matches an element (0: none does) and that element's
\* trimmed text.
HtmlNoName == [nameSel |-> 0, nameText |-> ""]
HtmlNamed == [nameSel |-> 1, nameText |-> "Jacket"]
HtmlPool == {HtmlNoName, HtmlNamed}

\* trySelectors + extractText over SELECTORS.name: null when no selector
\* matches, and `text().trim() || null`
extractText(html) ==
  IF html.nameSel = 0 \/ html.nameSel > NumNameSelectors THEN "null"
  ELSE IF html.nameText = "" THEN "null" ELSE html.nameText

\* the name field of parseZaraProduct's result: name || 'Unknown Product'
parseZaraProduct(html) ==
  IF extractText(html) = "null" THEN "Unknown Product" ELSE extractText(html)

(* ------------------------------ results ------------------------------- *)
Ok == [success |-> TRUE, errorCode |-> "none"]
Failed(code) == [success |-> FALSE, errorCode |-> code]

\* what navigateWithStealth can return in navResult.error: its three
\* classifications, or the message of any other failure
NavErrors == {"AKAMAI_BLOCKED", "AKAMAI_CHALLENGE", "TIMEOUT",
              "net::ERR_FAILED"}

\* the conditional chain that maps navResult.error to errorCode
NavErrorCode(err) ==
  IF err = "AKAMAI_BLOCKED" THEN "AKAMAI_BLOCKED"
  ELSE IF err = "AKAMAI_CHALLENGE" THEN "AKAMAI_CHALLENGE"
  ELSE IF err = "TIMEOUT" THEN "TIMEOUT"
  ELSE "UNKNOWN"

(* ------------------------------- state -------------------------------- *)
VARIABLES
  browserInstance,  \* the module-level singleton of browser.ts
  live,             \* the browser processes that are running
  products,         \* URLs of the product records in storage
  st,               \* per request: handler and scrapeProduct locals
  unit,             \* one call of a function of the parsers and utilities
  db                \* the tables of the storage gateway

vars == <<browserInstance, live, products, st, unit, db>>

\* no call made, no table in use
NoUnit == [op |-> "none"]
NoDb == [products |-> <<>>, priceHistory |-> <<>>, stockSnapshots |-> <<>>,
         calls |-> 0,
         last |-> [url |-> <<>>, currentPrice |-> 0, sizes |-> <<>>]]

NoHtml == [nameSel |-> 0, nameText |-> "none"]
NoResult == [success |-> FALSE, errorCode |-> "none"]
NoAttempt ==
  [url |-> UnknownUrl, valid |-> FALSE, result |-> NoResult, nav |-> "none",
   html |-> NoHtml, saves |-> 0, raisedAt |-> "none",
   cleanupFailed |-> FALSE, storage |-> "none", leaked |-> FALSE,
   done |-> FALSE]

\* the locals of one scrapeProduct activation, before its first statement
FreshScrape(r) ==
  [r EXCEPT !.store = NoStore, !.browser = NoBrowser, !.ctx = FALSE,
            !.cstate = "none", !.cbrowser = NoBrowser, !.nav = "none",
            !.html = NoHtml, !.site = "none", !.pending = NoResult,
            !.saves = 0, !.raisedAt = "none", !.cleanupFailed = FALSE,
            !.storage = "none", !.last = NoAttempt]

\* `nProducts` is products.length in the cron handler, `urls` the list it
\* passes on (products.slice(0, limit)); `attempts` lists what each
\* scrapeProduct call of the request was given and returned.  Both
\* handlers pass saveToStorage: true.  `storage` is what the running
\* scrapeProduct has done to the storage gateway: nothing, a read, a write.
InitProc(urls, nProducts) ==
  [pc |-> "start", nProducts |-> nProducts, urls |-> urls, i |-> 1,
   saveToStorage |-> TRUE, storage |-> "none",
   results |-> <<>>, attempts |-> <<>>,
   store |-> NoStore, browser |-> NoBrowser, ctx |-> FALSE,
   cstate |-> "none", cbrowser |-> NoBrowser, nav |-> "none",
   html |-> NoHtml, site |-> "none", pending |-> NoResult,
   cbSite |-> "none", closing |-> NoBrowser,
   saves |-> 0, raisedAt |-> "none", cleanupFailed |-> FALSE,
   last |-> NoAttempt,
   escaped |-> FALSE, returned |-> FALSE, retInstance |-> NoBrowser,
   closeRan |-> FALSE, status |-> 0]

UrlLists == UNION {[1..n -> UrlPool] : n \in 0..MaxUrls}

Init ==
  /\ browserInstance = NoBrowser
  /\ live = {}
  /\ unit = NoUnit
  /\ db = NoDb
  /\ \E batch \in UrlLists, posted \in [Posts -> PostUrlPool] :
       \E n \in {Len(batch), IF Len(batch) = 0 THEN 1 ELSE Len(batch)} :
         /\ products = IF n > Len(batch) THEN {ZaraProductUrl}
                        ELSE {batch[k] : k \in 1..Len(batch)}
         /\ st = [p \in Procs |->
                    IF p = Cron THEN InitProc(batch, n)
                    ELSE InitProc(<<posted[p]>>, 0)]

\* browser.isConnected()
IsLive(b) == b \in live

\* A Browser object is named by an id; the id of a process that has ended
\* and that no variable refers to any more names the next one launched.
Referenced(b) ==
  \/ b \in live
  \/ b = browserInstance
  \/ \E q \in Procs : st[q].browser = b \/ st[q].closing = b

FreeIds == {b \in BrowserIds : ~Referenced(b)}
NewId == CHOOSE b \in FreeIds : \A c \in FreeIds : b <= c

SetProc(p, r) == st' = [st EXCEPT ![p] = r]

(* ------------------- scrapeProducts: the batch loop ------------------- *)
\* results.push(result)
Push(results, result) == Append(results, result)

\* a loop that a failed item ends
StopsAfterFailure(i, n, result) == i < n /\ result.success

\* `for (let i = 0; i < urls.length; i++)`: the loop goes on to the next
\* item after item i whatever its result was
LoopContinues(i, n, result) == i < n

\* The statement that follows `await scrapeProduct(url, options)` in the
\* caller.  In scrapeProducts: push, then the delay before the next item or,
\* after the last item, closeBrowser.  In POST /api/scrape: closeBrowser.
AfterScrape(p, r, result) ==
  IF p = Cron
  THEN IF LoopContinues(r.i, Len(r.urls), result)
       THEN [r EXCEPT !.results = Push(@, result), !.pc = "delay"]
       ELSE [r EXCEPT !.results = Push(@, result), !.pc = "closeBrowser",
                      !.cbSite = "batch"]
  ELSE [r EXCEPT !.results = <<result>>, !.pc = "closeBrowser",
                 !.cbSite = "post"]

(* --------------------------- scrapeProduct ---------------------------- *)
\* scrapeProduct returns `result` to its caller and its locals are gone.
\* `last` keeps what this activation did, for the properties below; the
\* caller's next step drops it.
Return(p, r, result) ==
  AfterScrape(p,
    [FreshScrape(r) EXCEPT
       !.attempts = Append(@, [url |-> r.urls[r.i], result |-> result]),
       !.last =
       [url |-> r.urls[r.i],
        valid |-> r.store # NoStore /\ isValidUrl(r.store, r.urls[r.i]),
        result |-> result, nav |-> r.nav, html |-> r.html,
        saves |-> r.saves, raisedAt |-> r.raisedAt,
        cleanupFailed |-> r.cleanupFailed, storage |-> r.storage,
        leaked |-> r.cstate = "open", done |-> TRUE]],
    result)

\* the finally block: closeContext once more when `context` is still set
Finally(p, r, result) ==
  IF r.ctx
  THEN [r EXCEPT !.pc = "closeContext", !.site = "finally",
                 !.pending = result]
  ELSE Return(p, r, result)

\* an exception inside the try block: the catch block answers UNKNOWN
Raise(p, r, step) ==
  Finally(p, [r EXCEPT !.raisedAt = IF @ = "none" THEN step ELSE @],
          Failed("UNKNOWN"))

\* Lines 52-90: detect the store, validate the URL, then getBrowser up to its
\* first await: reuse the connected singleton or start chromium.launch.
ScrapeStart(p) ==
  LET r0 == FreshScrape(st[p])
      u == r0.urls[r0.i]
      store == detectStore(u)
      r == [r0 EXCEPT !.store = store]
  IN /\ st[p].pc = "scrape"
     /\ IF store = NoStore \/ ~isValidUrl(store, u)
        THEN SetProc(p, Return(p, r, Failed("UNKNOWN")))
        ELSE IF IsLive(browserInstance)
        THEN SetProc(p, [r EXCEPT !.browser = browserInstance,
                                  !.pc = "createContext"])
        ELSE SetProc(p, [r EXCEPT !.pc = "launching"])
     /\ UNCHANGED <<browserInstance, live, products>>

\* `browserInstance = await chromium.launch(...)` completes
LaunchDone(p) ==
  /\ st[p].pc = "launching"
  /\ \/ /\ FreeIds # {}
        /\ live' = live \cup {NewId}
        /\ browserInstance' = NewId
        /\ SetProc(p, [st[p] EXCEPT !.browser = NewId,
                                    !.pc = "createContext"])
        /\ UNCHANGED products
     \/ /\ SetProc(p, Raise(p, st[p], "launch"))
        /\ UNCHANGED <<browserInstance, live, products>>

\* createContext: loadSession (whose ensureSessionsDir may throw) and
\* browser.newContext, then addInitScript on the new context.  Only when
\* createContext returns does scrapeProduct assign `context`; when
\* addInitScript rejects, the context exists and no variable holds it.
CreateContext(p) ==
  /\ st[p].pc = "createContext"
  /\ \/ /\ IsLive(st[p].browser)
        /\ SetProc(p, [st[p] EXCEPT !.cstate = "open",
                                    !.cbrowser = st[p].browser,
                                    !.browser = NoBrowser,
                                    !.ctx = TRUE, !.pc = "createPage"])
     \/ /\ IsLive(st[p].browser)
        /\ SetProc(p, Raise(p, [st[p] EXCEPT !.cstate = "open",
                                             !.cbrowser = st[p].browser,
                                             !.browser = NoBrowser],
                            "addInitScript"))
     \/ SetProc(p, Raise(p, [st[p] EXCEPT !.browser = NoBrowser],
                         "newContext"))
  /\ UNCHANGED <<browserInstance, live, products>>

\* createPage: context.newPage() and page.route()
CreatePage(p) ==
  /\ st[p].pc = "createPage"
  /\ \/ /\ st[p].cstate = "open"
        /\ SetProc(p, [st[p] EXCEPT !.pc = "navigate"])
     \/ SetProc(p, Raise(p, st[p], "createPage"))
  /\ UNCHANGED <<browserInstance, live, products>>

\* navigateWithStealth: never throws, returns success or an error string;
\* on a closed context every page call rejects, with a message that is not
\* a timeout.  Non-success goes to closeContext at line 102.
Navigate(p) ==
  /\ st[p].pc = "navigate"
  /\ \E nav \in NavErrors \cup {"OK"} :
       /\ st[p].cstate # "open" => nav = "net::ERR_FAILED"
       /\ IF nav = "OK"
          THEN SetProc(p, [st[p] EXCEPT !.nav = nav, !.pc = "content"])
          ELSE SetProc(p, [st[p] EXCEPT !.nav = nav, !.pc = "closeContext",
                                        !.site = "navfail"])
  /\ UNCHANGED <<browserInstance, live, products>>

\* Lines 116-146 up to the next await: PARSERS.zara has no preparePage, so
\* page.content() is next; then parse, and for the unknown name the debug
\* file write (fs.writeFileSync, which may throw) and PARSE_ERROR.
Content(p) ==
  /\ st[p].pc = "content"
  /\ \/ SetProc(p, Raise(p, st[p], "content"))
     \/ /\ st[p].cstate = "open"
        /\ \E html \in HtmlPool, writeOk \in BOOLEAN :
             LET r == [st[p] EXCEPT !.html = html] IN
             IF parseZaraProduct(html) = "Unknown Product"
             THEN IF writeOk
                  THEN SetProc(p, Finally(p, r, Failed("PARSE_ERROR")))
                  ELSE SetProc(p, Raise(p, r, "debugWrite"))
             ELSE /\ writeOk
                  /\ SetProc(p, [r EXCEPT !.pc = "closeContext",
                                          !.site = "success"])
  /\ UNCHANGED <<browserInstance, live, products>>

(* ---------------------------- closeContext ---------------------------- *)
\* the test of closeContext inverted
SavesWithoutStore(store) == store = NoStore

\* `if (store) await saveSession(store, context)`
CloseContextSaves(store) == store # NoStore

\* closeContext threw.  At lines 102 and 145 the catch block takes over; in
\* the finally block the error is ignored.
CloseContextThrows(p, r0) ==
  LET r == [r0 EXCEPT !.cleanupFailed = TRUE] IN
  IF r.site = "finally" THEN Return(p, r, r.pending)
  ELSE Raise(p, r, "closeContext")

\* closeContext returned.  Line 102 goes on to return the navigation
\* failure (`context` stays set), line 145 to `context = null` and, `if
\* (saveToStorage)`, to storage; without it the product is returned as is.
CloseContextReturns(p, r) ==
  IF r.site = "finally" THEN Return(p, r, r.pending)
  ELSE IF r.site = "navfail"
  THEN Finally(p, r, Failed(NavErrorCode(r.nav)))
  ELSE IF r.saveToStorage
  THEN [r EXCEPT !.ctx = FALSE, !.pc = "getProductByUrl"]
  ELSE Finally(p, [r EXCEPT !.ctx = FALSE], Ok)

\* closeContext: saveSession when a store is given, which swallows what
\* storageState and writeFileSync throw but not what its ensureSessionsDir
\* throws, then context.close(), which may reject
CloseContext(p) ==
  LET r == [st[p] EXCEPT
              !.saves = IF CloseContextSaves(st[p].store) THEN @ + 1 ELSE @]
  IN /\ st[p].pc = "closeContext"
     /\ \/ SetProc(p, CloseContextReturns(p,
             [r EXCEPT !.cstate = IF @ = "open" THEN "closed" ELSE @]))
        \/ SetProc(p, CloseContextThrows(p, r))
     /\ UNCHANGED <<browserInstance, live, products>>

(* ------------------------------ storage ------------------------------- *)
\* `await getProductByUrl(url)`
GetProductByUrl(p) ==
  LET r == [st[p] EXCEPT !.storage = "read"] IN
  /\ st[p].pc = "getProductByUrl"
  /\ \/ SetProc(p, [r EXCEPT !.pc = "upsert"])
     \/ SetProc(p, Raise(p, r, "storage"))
  /\ UNCHANGED <<browserInstance, live, products>>

\* `await updateProduct(...)` or `await addProduct(...)`, then success.
\* Either makes several database calls one after the other, outside any
\* transaction: it throws before its first write, or after the product
\* record was written (a later call rejects), or it returns.
Upsert(p) ==
  LET r == [st[p] EXCEPT !.storage = "written"] IN
  /\ st[p].pc = "upsert"
  /\ \/ /\ products' = products \cup {st[p].urls[st[p].i]}
        /\ SetProc(p, Finally(p, r, Ok))
     \/ /\ products' = products \cup {st[p].urls[st[p].i]}
        /\ SetProc(p, Raise(p, r, "storage"))
     \/ /\ SetProc(p, Raise(p, st[p], "storage"))
        /\ UNCHANGED products
  /\ UNCHANGED <<browserInstance, live>>

\* `await randomDelay(...)` between two items of a batch
Delay(p) ==
  /\ st[p].pc = "delay"
  /\ SetProc(p, [st[p] EXCEPT !.i = @ + 1, !.pc = "scrape",
                              !.last = NoAttempt])
  /\ UNCHANGED <<browserInstance, live, products>>

(* ---------------------------- closeBrowser ---------------------------- *)
\* `browserInstance = null` after the awaited close()
ClearedInstance(inst) == NoBrowser

\* the response status POST /api/scrape gives a scrape result
StatusOf(result) ==
  IF result.success THEN 200
  ELSE IF result.errorCode \in {"AKAMAI_BLOCKED", "AKAMAI_CHALLENGE"} THEN 403
  ELSE IF result.errorCode = "TIMEOUT" THEN 504
  ELSE IF result.errorCode = "PARSE_ERROR" THEN 422
  ELSE 500

\* the handler has responded: its locals are gone
Respond(r, status) ==
  [r EXCEPT !.pc = "done", !.status = status, !.results = <<>>,
            !.attempts = <<>>, !.cbSite = "none"]

\* closeBrowser returned to its caller: scrapeProducts returns its results
\* and the cron handler calls closeBrowser again; the handlers respond.
CloseBrowserReturns(p, r0, inst) ==
  LET r == [r0 EXCEPT !.closing = NoBrowser] IN
  IF r.cbSite = "batch"
  THEN [r EXCEPT !.returned = TRUE, !.retInstance = inst,
                 !.pc = "closeBrowser", !.cbSite = "cronAfter"]
  ELSE IF r.cbSite = "cronAfter" THEN Respond(r, 200)
  ELSE IF r.cbSite = "post" THEN Respond(r, StatusOf(r.results[1]))
  ELSE Respond(r, 500)

\* closeBrowser threw, the singleton as it was: out of scrapeProducts into
\* the cron handler's catch, which calls closeBrowser again and ignores its
\* error; the same in POST.  The catch blocks do not read the results.
CloseBrowserThrows(p, r0) ==
  LET r == [r0 EXCEPT !.closing = NoBrowser, !.results = <<>>,
                      !.attempts = <<>>] IN
  IF r.cbSite = "batch"
  THEN [r EXCEPT !.escaped = TRUE, !.retInstance = browserInstance,
                 !.pc = "closeBrowser", !.cbSite = "cronCatch"]
  ELSE IF r.cbSite = "cronAfter"
  THEN [r EXCEPT !.pc = "closeBrowser", !.cbSite = "cronCatch"]
  ELSE IF r.cbSite = "post"
  THEN [r EXCEPT !.pc = "closeBrowser", !.cbSite = "postCatch"]
  ELSE Respond(r, 500)

\* closeBrowser up to `await browserInstance.close()`
CloseBrowser(p) ==
  LET r == [st[p] EXCEPT !.last = NoAttempt,
                         !.closeRan = @ \/ st[p].cbSite = "batch"] IN
  /\ st[p].pc = "closeBrowser"
  /\ IF browserInstance = NoBrowser
     THEN SetProc(p, CloseBrowserReturns(p, r, browserInstance))
     ELSE SetProc(p, [r EXCEPT !.closing = browserInstance,
                               !.pc = "closing"])
  /\ UNCHANGED <<browserInstance, live, products>>

\* the contexts of a browser end with it
Kill(r, b) ==
  IF r.cstate = "open" /\ r.cbrowser = b THEN [r EXCEPT !.cstate = "killed"]
  ELSE r

\* close() resolves (the process is gone, the singleton is cleared) or
\* rejects (closeBrowser throws before clearing the singleton)
Closing(p) ==
  /\ st[p].pc = "closing"
  /\ \/ /\ live' = live \ {st[p].closing}
        /\ browserInstance' = ClearedInstance(browserInstance)
        /\ st' = [q \in Procs |->
                    IF q = p
                    THEN CloseBrowserReturns(p, Kill(st[p], st[p].closing),
                                             browserInstance')
                    ELSE Kill(st[q], st[p].closing)]
     \/ /\ SetProc(p, CloseBrowserThrows(p, st[p]))
        /\ UNCHANGED <<browserInstance, live>>
  /\ UNCHANGED products

(* ------------------------------ handlers ------------------------------ *)
\* scrapeProducts(urls) up to its first await: the first item, or for the
\* empty list closeBrowser at once
ScrapeProducts(r) ==
  IF Len(r.urls) = 0
  THEN [r EXCEPT !.pc = "closeBrowser", !.cbSite = "batch"]
  ELSE [r EXCEPT !.pc = "scrape"]

\* GET /api/cron: nothing to refresh when there are no products, else
\* scrapeProducts of the first `limit` of them (none for limit=0)
CronStart(p) ==
  /\ p = Cron
  /\ st[p].pc = "start"
  /\ IF st[p].nProducts = 0
     THEN SetProc(p, Respond(st[p], 200))
     ELSE SetProc(p, ScrapeProducts(st[p]))
  /\ UNCHANGED <<browserInstance, live, products>>

\* POST /api/scrape: 400 for a URL of no known store, else scrapeProduct
PostStart(p) ==
  /\ p \in Posts
  /\ st[p].pc = "start"
  /\ IF detectStore(st[p].urls[1]) = NoStore
     THEN SetProc(p, Respond(st[p], 400))
     ELSE SetProc(p, [st[p] EXCEPT !.pc = "scrape"])
  /\ UNCHANGED <<browserInstance, live, products>>

Next ==
  /\ \E p \in Procs :
       \/ CronStart(p) \/ PostStart(p)
       \/ ScrapeStart(p) \/ LaunchDone(p) \/ CreateContext(p)
       \/ CreatePage(p) \/ Navigate(p) \/ Content(p) \/ CloseContext(p)
       \/ GetProductByUrl(p) \/ Upsert(p) \/ Delay(p)
       \/ CloseBrowser(p) \/ Closing(p)
  /\ UNCHANGED <<unit, db>>

Spec == Init /\ [][Next]_vars

(* ========================= the text normalizers ======================= *)
(* parsePrice and parseDiscount of lib/scraper/utils.ts.  A text is a      *)
(* sequence of characters; a number is a decimal numeral m / 10^e, or      *)
(* null.  Arithmetic is exact.                                             *)

Digits == {"0", "1", "2", "3", "4", "5", "6", "7", "8", "9"}
DigitVal(c) ==
  CASE c = "0" -> 0 [] c = "1" -> 1 [] c = "2" -> 2 [] c = "3" -> 3
    [] c = "4" -> 4 [] c = "5" -> 5 [] c = "6" -> 6 [] c = "7" -> 7
    [] c = "8" -> 8 [] c = "9" -> 9

Null == [isNull |-> TRUE, m |-> 0, e |-> 0]
RECURSIVE Num(_, _)
\* the number m / 10^e, without trailing zeros in the fraction
Num(m, e) ==
  IF e > 0 /\ m % 10 = 0 THEN Num(m \div 10, e - 1)
  ELSE [isNull |-> FALSE, m |-> m, e |-> e]

\* a text the caller passes, or the null that extractText returns
NullText == [isNull |-> TRUE, chars |-> <<>>]
Text(chars) == [isNull |-> FALSE, chars |-> chars]

RECURSIVE DigitsPrefix(_)
\* the longest run of digits a text starts with
DigitsPrefix(s) ==
  IF s = <<>> \/ Head(s) \notin Digits THEN <<>>
  ELSE <<Head(s)>> \o DigitsPrefix(Tail(s))

RECURSIVE DigitsValue(_, _)
\* the integer a run of digits writes
DigitsValue(s, acc) ==
  IF s = <<>> THEN acc ELSE DigitsValue(Tail(s), 10 * acc + DigitVal(Head(s)))

Drop(s, n) == SubSeq(s, n + 1, Len(s))

RECURSIVE RemoveChars(_, _)
\* replace(/[...]/g, '')
RemoveChars(s, set) ==
  IF s = <<>> THEN <<>>
  ELSE IF Head(s) \in set THEN RemoveChars(Tail(s), set)
  ELSE <<Head(s)>> \o RemoveChars(Tail(s), set)

Upper(c) ==
  CASE c = "e" -> "E" [] c = "u" -> "U" [] c = "r" -> "R" [] c = "s" -> "S"
    [] c = "d" -> "D" [] c = "g" -> "G" [] c = "b" -> "B" [] c = "p" -> "P"
    [] OTHER -> c

CurrencyCodes == {<<"E", "U", "R">>, <<"U", "S", "D">>, <<"G", "B", "P">>}

RECURSIVE RemoveCodes(_)
\* replace(/EUR|USD|GBP/gi, '')
RemoveCodes(s) ==
  IF s = <<>> THEN <<>>
  ELSE IF Len(s) >= 3 /\ <<Upper(s[1]), Upper(s[2]), Upper(s[3])>> \in CurrencyCodes
  THEN RemoveCodes(Drop(s, 3))
  ELSE <<Head(s)>> \o RemoveCodes(Tail(s))

RECURSIVE ReplaceFirst(_, _, _)
\* replace(from, to) with a string pattern: the first occurrence only
ReplaceFirst(s, from, to) ==
  IF s = <<>> THEN <<>>
  ELSE IF Head(s) = from THEN <<to>> \o Tail(s)
  ELSE <<Head(s)>> \o ReplaceFirst(Tail(s), from, to)

\* the three replace calls and trim() at the head of parsePrice
Cleaned(s) == RemoveChars(RemoveCodes(RemoveChars(s, {"$"})), {" "})

RECURSIVE ThousandsGroups(_)
\* (\.\d{3})*,\d{2}$
ThousandsGroups(s) ==
  IF s = <<>> THEN FALSE
  ELSE IF Head(s) = "."
  THEN /\ Len(s) >= 4
       /\ {s[2], s[3], s[4]} \subseteq Digits
       /\ ThousandsGroups(Drop(s, 4))
  ELSE Len(s) = 3 /\ s[1] = "," /\ {s[2], s[3]} \subseteq Digits

\* /^\d{1,3}(\.\d{3})*,\d{2}$/.test(cleaned)
EuropeanThousands(s) ==
  LET d == DigitsPrefix(s)
  IN \E n \in 1..3 : n <= Len(d) /\ ThousandsGroups(Drop(s, n))

\* /,\d{2}$/.test(cleaned)
EuropeanDecimal(s) ==
  /\ Len(s) >= 3
  /\ s[Len(s) - 2] = ","
  /\ {s[Len(s) - 1], s[Len(s)]} \subseteq Digits

\* parseFloat: an optional sign, digits, an optional point and digits, at
\* least one digit; what follows is ignored; NaN (here null) otherwise
parseFloat(s) ==
  LET neg == s # <<>> /\ Head(s) = "-"
      body == IF neg THEN Tail(s) ELSE s
      int == DigitsPrefix(body)
      rest == Drop(body, Len(int))
      frac == IF rest # <<>> /\ Head(rest) = "."
              THEN DigitsPrefix(Tail(rest)) ELSE <<>>
      m == DigitsValue(int \o frac, 0)
  IN IF int = <<>> /\ frac = <<>> THEN Null
     ELSE Num(IF neg THEN 0 - m ELSE m, Len(frac))

parsePrice(text) ==
  IF text.isNull \/ text.chars = <<>> THEN Null
  ELSE LET c == Cleaned(text.chars)
           n == IF EuropeanThousands(c)
                THEN ReplaceFirst(RemoveChars(c, {"."}), ",", ".")
                ELSE IF EuropeanDecimal(c) THEN ReplaceFirst(c, ",", ".")
                ELSE c
       IN parseFloat(n)

RECURSIVE FirstIntegerMatch(_)
\* discountString.match(/-?\d+/): the digits of the leftmost match, <<>>
\* when nothing matches
FirstIntegerMatch(s) ==
  IF s = <<>> THEN <<>>
  ELSE IF Head(s) \in Digits THEN DigitsPrefix(s)
  ELSE IF Head(s) = "-" /\ Len(s) >= 2 /\ s[2] \in Digits
  THEN DigitsPrefix(Tail(s))
  ELSE FirstIntegerMatch(Tail(s))

\* a range test that forgets the upper end
AnyPositiveDiscount(d) == IF d > 0 THEN Num(d, 0) ELSE Null

\* `discount > 0 && discount <= 100 ? discount : null`
AcceptedDiscount(d) == IF d > 0 /\ d <= 100 THEN Num(d, 0) ELSE Null

\* Math.abs(parseInt(match[0], 10)): the sign of the match is dropped
parseDiscount(text) ==
  IF text.isNull \/ text.chars = <<>> THEN Null
  ELSE LET digits == FirstIntegerMatch(text.chars)
       IN IF digits = <<>> THEN Null
          ELSE AcceptedDiscount(DigitsValue(digits, 0))

\* the texts put together from at most n of the given pieces
RECURSIVE TextsOf(_, _)
TextsOf(pieces, n) ==
  IF n = 0 THEN {<<>>}
  ELSE {t \o piece : t \in TextsOf(pieces, n - 1), piece \in pieces \cup {<<>>}}

\* the number of digits in a text
DigitCount(s) == Len(RemoveChars(s, {s[k] : k \in 1..Len(s)} \ Digits))

PricePieces ==
  {<<"1">>, <<".", "2", "3", "4">>, <<"5", "6">>, <<",">>, <<".">>, <<"-">>,
   <<"$">>, <<" ", "E", "U", "R">>, <<"x">>}
PriceTexts ==
  {NullText} \cup
  {Text(t) : t \in {x \in TextsOf(PricePieces, MaxPricePieces) :
                      DigitCount(x) <= MaxDigits}}

DiscountPieces ==
  {<<"-">>, <<"2", "0">>, <<"1", "5", "0">>, <<"0">>, <<"%">>, <<" ">>,
   <<"x">>}
DiscountTexts ==
  {NullText} \cup
  {Text(t) : t \in {x \in TextsOf(DiscountPieces, MaxDiscountPieces) :
                      DigitCount(x) <= MaxDigits}}

ParsePrice ==
  /\ unit = NoUnit
  /\ \E text \in PriceTexts :
       unit' = [op |-> "parsePrice", in |-> text, out |-> parsePrice(text)]
  /\ UNCHANGED <<browserInstance, live, products, st, db>>

ParseDiscount ==
  /\ unit = NoUnit
  /\ \E text \in DiscountTexts :
       unit' = [op |-> "parseDiscount", in |-> text,
                out |-> parseDiscount(text)]
  /\ UNCHANGED <<browserInstance, live, products, st, db>>

\* every URL a caller can hand to detectStore
AnyUrls ==
  [host : BrandSet \cup {"none"}, rest : BrandSet \cup {"none"},
   product : BOOLEAN]

DetectStore ==
  /\ unit = NoUnit
  /\ \E u \in AnyUrls :
       unit' = [op |-> "detectStore", in |-> u, out |-> detectStore(u)]
  /\ UNCHANGED <<browserInstance, live, products, st, db>>

(* ---------------------------- extractSizes ----------------------------- *)
\* A size element is what extractSizes reads of it: its label text, the
\* data-qa-action of its button ("" when absent or unrecognised) and the
\* two class tests of the list item.
InStock == "size-in-stock"
LowOnStock == "size-low-on-stock"
OutOfStock == "size-out-of-stock"
SizeActions == {InStock, LowOnStock, OutOfStock, ""}
SizeItems ==
  [label : {"", "M"}, action : SizeActions, disabled : BOOLEAN,
   enabled : BOOLEAN]

\* `lowStock: lowStock || undefined`
LowStockField(lowStock) == IF lowStock THEN "true" ELSE "undefined"

\* availability read from the classes alone, whatever the marker says
PrimaryAvailableByClasses(item) == ~item.disabled /\ item.enabled

\* the if / else-if chain of the primary path
PrimaryAvailable(item) ==
  IF item.action = InStock THEN TRUE
  ELSE IF item.action = LowOnStock THEN TRUE
  ELSE IF item.action = OutOfStock THEN FALSE
  ELSE ~item.disabled /\ item.enabled

PrimarySize(item) ==
  [size |-> item.label, available |-> PrimaryAvailable(item),
   lowStock |-> LowStockField(item.action = LowOnStock)]

FallbackSize(item) ==
  [size |-> item.label,
   available |-> item.action = InStock \/ item.action = LowOnStock,
   lowStock |-> LowStockField(item.action = LowOnStock)]

\* items without a label are skipped
Labelled(items) == SelectSeq(items, LAMBDA item : item.label # "")

extractSizes(page) ==
  IF Len(page.primary) > 0
  THEN LET kept == Labelled(page.primary)
       IN IF kept = <<>> THEN <<>>
          ELSE [k \in 1..Len(kept) |-> PrimarySize(kept[k])]
  ELSE IF Len(page.fallback) > 0
  THEN LET kept == Labelled(page.fallback)
       IN IF kept = <<>> THEN <<>>
          ELSE [k \in 1..Len(kept) |-> FallbackSize(kept[k])]
  ELSE <<>>

\* the lists of n size elements
ItemLists(n) == [1..n -> SizeItems]
\* an old-structure element that the primary path must not look at
OldLowItem ==
  [label |-> "M", action |-> LowOnStock, disabled |-> TRUE, enabled |-> FALSE]
\* the pages that show the given elements: in the primary structure, with
\* or without an old-structure element beside them, or in the old structure
SizePages(items) ==
  IF Len(items) = 0 THEN {[primary |-> <<>>, fallback |-> <<>>]}
  ELSE {[primary |-> items, fallback |-> <<>>],
        [primary |-> items, fallback |-> <<OldLowItem>>],
        [primary |-> <<>>, fallback |-> items]}

ExtractSizes ==
  /\ unit = NoUnit
  /\ \E n \in 0..MaxItems :
       \E items \in ItemLists(n) :
         \E page \in SizePages(items) :
           unit' = [op |-> "extractSizes", in |-> page,
                    out |-> extractSizes(page)]
  /\ UNCHANGED <<browserInstance, live, products, st, db>>

(* ------------------------- the price fields --------------------------- *)
\* The prices and the discount of a product snapshot: parseZaraProduct
\* reads three texts off the page, scrapeProduct copies the result into
\* fullProduct.
RECURSIVE Pow10(_)
Pow10(n) == IF n = 0 THEN 1 ELSE 10 * Pow10(n - 1)

\* the numerator of x over the denominator 10^e, e >= x.e
Scaled(x, e) == x.m * Pow10(e - x.e)
CommonScale(a, b) == IF a.e > b.e THEN a.e ELSE b.e
\* a < b, both numbers
Less(a, b) == Scaled(a, CommonScale(a, b)) < Scaled(b, CommonScale(a, b))

\* the truth value of `number | null`: null and 0 are falsy
Truthy(x) == ~x.isNull /\ x.m # 0
\* `x || 0` and `x || null`
OrZero(x) == IF Truthy(x) THEN x ELSE Num(0, 0)
OrNull(x) == IF Truthy(x) THEN x ELSE Null

\* Math.round(num / den): the floor of num / den + 1/2
MathRound(num, den) ==
  IF den > 0 THEN (2 * num + den) \div (2 * den)
  ELSE (0 - (2 * num + den)) \div (0 - 2 * den)

\* Math.round(((oldPrice - currentPrice) / oldPrice) * 100)
PercentOff(oldPrice, currentPrice) ==
  LET e == CommonScale(oldPrice, currentPrice)
      old == Scaled(oldPrice, e)
      cur == Scaled(currentPrice, e)
  IN Num(MathRound((old - cur) * 100, old), 0)

\* the price fields of parseZaraProduct's result
ParsedPrices(page) ==
  LET currentPrice == parsePrice(page.currentPriceText)
      oldPrice == parsePrice(page.oldPriceText)
      parsed == parseDiscount(page.discountText)
      discount ==
        IF /\ ~Truthy(parsed)
           /\ Truthy(currentPrice)
           /\ Truthy(oldPrice)
           /\ Less(currentPrice, oldPrice)
        THEN PercentOff(oldPrice, currentPrice)
        ELSE parsed
  IN [currentPrice |-> OrZero(currentPrice), oldPrice |-> oldPrice,
      discount |-> discount]

\* the price fields of scrapeProduct's fullProduct
FullProduct(productData) ==
  [currentPrice |-> OrZero(productData.currentPrice),
   oldPrice |-> OrNull(productData.oldPrice),
   discount |-> OrNull(productData.discount)]

\* what extractText can return for a price element and a discount element
PagePriceTexts ==
  {NullText,
   Text(<<"0", ",", "0", "0">>),
   Text(<<"-", "5", ",", "0", "0">>),
   Text(<<"1", "9", ",", "9", "9", " ", "E", "U", "R">>),
   Text(<<"2", "9", ",", "9", "5", " ", "E", "U", "R">>),
   Text(<<"2", "9", ",", "9", "9", " ", "E", "U", "R">>),
   Text(<<"3", "0">>),
   Text(<<"4", "5">>)}
PageDiscountTexts ==
  {NullText,
   Text(<<"-", "3", "3", "%">>),
   Text(<<"-", "5", "0", "%">>),
   Text(<<"0", "%">>),
   Text(<<"1", "5", "0", "%">>)}
PricePages ==
  [currentPriceText : PagePriceTexts, oldPriceText : PagePriceTexts,
   discountText : PageDiscountTexts]

BuildProduct ==
  /\ unit = NoUnit
  /\ \E page \in PricePages :
       unit' = [op |-> "fullProduct", in |-> page,
                out |-> FullProduct(ParsedPrices(page))]
  /\ UNCHANGED <<browserInstance, live, products, st, db>>

(* ---------------------------- loadSession ------------------------------ *)
\* The disk as loadSession meets it: the sessions directory exists, is
\* missing and can be made, or is missing and mkdirSync fails; the session
\* file is missing, cannot be read, holds no JSON, or holds a session.
SessionDirs == {"exists", "creatable", "uncreatable"}
SessionFiles == {"missing", "unreadable", "corrupt", "valid"}
Disks ==
  {disk \in [dir : SessionDirs, file : SessionFiles] :
     disk.dir # "exists" => disk.file = "missing"}

\* ensureSessionsDir throws exactly when mkdirSync does
ensureSessionsDirThrows(disk) == disk.dir = "uncreatable"

\* ensureSessionsDir() stands before the try block; readFileSync and
\* JSON.parse stand inside it
loadSession(disk) ==
  IF ensureSessionsDirThrows(disk)
  THEN [raised |-> TRUE, session |-> "undefined"]
  ELSE IF disk.file = "missing"
  THEN [raised |-> FALSE, session |-> "undefined"]
  ELSE IF disk.file \in {"unreadable", "corrupt"}
  THEN [raised |-> FALSE, session |-> "undefined"]
  ELSE [raised |-> FALSE, session |-> "session"]

\* createContext with a store: loadSession is called outside any try, and
\* its result is newContext's storageState
ContextFor(disk) ==
  LET loaded == loadSession(disk)
  IN IF loaded.raised THEN "raised"
     ELSE IF loaded.session = "undefined" THEN "fresh"
     ELSE "restored"

LoadSession ==
  /\ unit = NoUnit
  /\ \E disk \in Disks :
       unit' = [op |-> "loadSession", in |-> disk,
                out |-> [raised |-> loadSession(disk).raised,
                         session |-> loadSession(disk).session,
                         context |-> ContextFor(disk)]]
  /\ UNCHANGED <<browserInstance, live, products, st, db>>

(* ---------------------------- saveSession ------------------------------ *)
\* saveSession: ensureSessionsDir() stands before the try block;
\* context.storageState() and writeFileSync stand inside it
saveSession(disk, stateOk, writeOk) ==
  IF ensureSessionsDirThrows(disk)
  THEN [raised |-> TRUE, written |-> FALSE]
  ELSE [raised |-> FALSE, written |-> stateOk /\ writeOk]

\* closeContext: `if (store) await saveSession(store, context)`, then
\* `await context.close()`, reached only when nothing was thrown before it
closeContext(store, disk, stateOk, writeOk) ==
  LET saved == IF CloseContextSaves(store)
               THEN saveSession(disk, stateOk, writeOk)
               ELSE [raised |-> FALSE, written |-> FALSE]
  IN [attempted |-> CloseContextSaves(store), raised |-> saved.raised,
      written |-> saved.written, closeCalled |-> ~saved.raised]

CloseContextCall ==
  /\ unit = NoUnit
  /\ \E store \in {"zara", NoStore}, disk \in Disks, stateOk \in BOOLEAN,
        writeOk \in BOOLEAN :
       unit' = [op |-> "closeContext",
                in |-> [store |-> store, disk |-> disk, stateOk |-> stateOk,
                        writeOk |-> writeOk],
                out |-> closeContext(store, disk, stateOk, writeOk)]
  /\ UNCHANGED <<browserInstance, live, products, st, db>>

(* ------------------------ navigateWithStealth ------------------------- *)
\* `timeout: 60000` in the options of page.goto
GotoTimeoutMs == 60000
\* `timeout = 60000` in scrapeProduct's options and in DEFAULT_OPTIONS
DefaultTimeoutMs == 60000

\* includes(): the text holds the word, letter case kept
Includes(s, word) ==
  \E k \in 0..(Len(s) - Len(word)) : SubSeq(s, k + 1, k + Len(word)) = word

\* the literal of message.includes('timeout')
TimeoutWord == <<"t", "i", "m", "e", "o", "u", "t">>

\* The messages of the errors page.goto rejects with.  Playwright's
\* TimeoutError reads "page.goto: Timeout 60000ms exceeded."; the second is
\* a timeout message in lower case; the third is a network failure.
PlaywrightTimeoutMessage ==
  <<"p", "a", "g", "e", ".", "g", "o", "t", "o", ":", " ", "T", "i", "m",
    "e", "o", "u", "t", " ", "6", "0", "0", "0", "0", "m", "s", " ", "e",
    "x", "c", "e", "e", "d", "e", "d", ".">>
LowerCaseTimeoutMessage ==
  <<"N", "a", "v", "i", "g", "a", "t", "i", "o", "n", " ", "t", "i", "m",
    "e", "o", "u", "t", " ", "o", "f", " ", "6", "0", "0", "0", "0", " ",
    "m", "s", " ", "e", "x", "c", "e", "e", "d", "e", "d">>
NetworkFailureMessage ==
  <<"p", "a", "g", "e", ".", "g", "o", "t", "o", ":", " ", "n", "e", "t",
    ":", ":", "E", "R", "R", "_", "F", "A", "I", "L", "E", "D">>

\* what page.goto does: a response with a status, null, or an error;
\* timedOut tells whether the navigation ran out of time
GotoOutcomes ==
  {[kind |-> "response", status |-> s, message |-> <<>>, timedOut |-> FALSE] :
     s \in {200, 403, 404}}
  \cup {[kind |-> "null", status |-> 0, message |-> <<>>, timedOut |-> FALSE]}
  \cup {[kind |-> "throws", status |-> 0, message |-> PlaywrightTimeoutMessage,
         timedOut |-> TRUE],
        [kind |-> "throws", status |-> 0, message |-> LowerCaseTimeoutMessage,
         timedOut |-> TRUE],
        [kind |-> "throws", status |-> 0, message |-> NetworkFailureMessage,
         timedOut |-> FALSE]}

\* A page body is the set of challenge markers it holds.
Markers == {"bm-verify", "akam-logo", "_sec/verify"}
\* the markers the first test looks for, and the markers the test after
\* waitForTimeout(5000) looks for
FirstCheckMarkers == {"bm-verify", "akam-logo", "_sec/verify"}
ReCheckMarkers == {"bm-verify", "akam-logo"}

NoError == [code |-> "none", message |-> <<>>]
NavFailure(status, code, message) ==
  [success |-> FALSE, status |-> status,
   error |-> [code |-> code, message |-> message]]

\* the second look at the page, after the wait
StillChallenged(newHtml) == newHtml \cap ReCheckMarkers # {}

\* navigateWithStealth(page, url, {}): html is the body after the settle
\* wait, newHtml the body after the wait for the challenge
navigateWithStealth(goto, html, newHtml) ==
  IF goto.kind = "throws"
  THEN IF Includes(goto.message, TimeoutWord)
       THEN NavFailure(0, "TIMEOUT", <<>>)
       ELSE NavFailure(0, "message", goto.message)
  ELSE IF goto.kind = "null"
  THEN NavFailure(0, "No response received", <<>>)
  ELSE IF goto.status = 403
  THEN NavFailure(403, "AKAMAI_BLOCKED", <<>>)
  ELSE IF html \cap FirstCheckMarkers # {} /\ StillChallenged(newHtml)
  THEN NavFailure(403, "AKAMAI_CHALLENGE", <<>>)
  ELSE [success |-> TRUE, status |-> goto.status, error |-> NoError]

\* createContext: setDefaultNavigationTimeout(opts.timeout || 60000)
ContextTimeout(timeout) == IF timeout = 0 THEN DefaultTimeoutMs ELSE timeout
\* the timeout of page.goto: the option of the call, which takes the place
\* of the context's default
GotoTimeout(contextTimeout) == GotoTimeoutMs

\* the timeout a caller gives scrapeProduct in its options
TimeoutOptions == {30000, 60000, 120000}

\* scrapeProduct from createContext to the result of a failed navigation
NavigateCall ==
  /\ unit = NoUnit
  /\ \E timeout \in TimeoutOptions, goto \in GotoOutcomes,
        html \in SUBSET Markers, newHtml \in SUBSET Markers :
       LET navResult == navigateWithStealth(goto, html, newHtml) IN
       unit' = [op |-> "navigate",
                in |-> [timeout |-> timeout, goto |-> goto, html |-> html,
                        newHtml |-> newHtml],
                out |-> [navResult |-> navResult,
                         gotoTimeout |-> GotoTimeout(ContextTimeout(timeout)),
                         errorCode |-> IF navResult.success THEN "none"
                                       ELSE NavErrorCode(navResult.error.code)]]
  /\ UNCHANGED <<browserInstance, live, products, st, db>>

(* ----------------------- candidate selectors --------------------------- *)
\* What one selector of a field's candidate list finds on the page: no
\* element, or the trimmed text of its first element ("" when the element
\* is empty).
NoElement == "no element"
Found == {NoElement, "", "Jacket", "Coat"}

\* SELECTORS.name, .currentPrice and .oldPrice list four candidates,
\* SELECTORS.discount three
SelectorCounts == {3, 4}

\* the first selector whose `$(selector)` has length > 0 (0: none has)
RECURSIVE trySelectors(_, _)
trySelectors(found, k) ==
  IF k > Len(found) THEN 0
  ELSE IF found[k] # NoElement THEN k
  ELSE trySelectors(found, k + 1)

\* extractText over a candidate list: null when trySelectors found nothing,
\* otherwise `element.first().text().trim() || null`
extractTextOf(found) ==
  LET k == trySelectors(found, 1) IN
  IF k = 0 THEN "null"
  ELSE IF found[k] = "" THEN "null" ELSE found[k]

ExtractText ==
  /\ unit = NoUnit
  /\ \E n \in SelectorCounts : \E found \in [1..n -> Found] :
       unit' = [op |-> "extractText", in |-> found,
                out |-> extractTextOf(found)]
  /\ UNCHANGED <<browserInstance, live, products, st, db>>

InitUnits ==
  /\ browserInstance = NoBrowser
  /\ live = {}
  /\ products = {}
  /\ st = [p \in Procs |-> InitProc(<<>>, 0)]
  /\ unit = NoUnit
  /\ db = NoDb

NextUnits ==
  ParsePrice \/ ParseDiscount \/ DetectStore \/ ExtractSizes \/ BuildProduct
  \/ LoadSession \/ CloseContextCall \/ NavigateCall \/ ExtractText

SpecUnits == InitUnits /\ [][NextUnits]_vars

(* ========================= the storage gateway ======================== *)
(* The product tables behind scrapeProduct's persist step                  *)
(* (lib/storage/db/products.ts): getProductByUrl, addProduct and           *)
(* updateProduct with the price history and the stock snapshots they       *)
(* append.  One persist runs at a time and its database calls complete.    *)

\* A stored URL is a string, here a sequence of characters; "?" starts the
\* query string.
UrlA == <<"a">>
UrlAQuery == <<"a", "?", "1">>
UrlALonger == <<"a", "x">>
UrlB == <<"b">>
StoredUrls == {UrlA, UrlAQuery, UrlALonger, UrlB}

\* url.split('?')[0]
RECURSIVE normalizedUrl(_)
normalizedUrl(url) ==
  IF url = <<>> \/ Head(url) = "?" THEN <<>>
  ELSE <<Head(url)>> \o normalizedUrl(Tail(url))

\* prisma's `startsWith`
StartsWith(str, prefix) ==
  Len(prefix) <= Len(str) /\ SubSeq(str, 1, Len(prefix)) = prefix

SizesIn == <<[size |-> "M", available |-> TRUE, lowStock |-> FALSE]>>
SizesOut == <<[size |-> "M", available |-> FALSE, lowStock |-> FALSE]>>
Prices == {10, 20}
\* the fullProduct scrapeProduct builds
Snapshots == [url : StoredUrls, currentPrice : Prices,
              sizes : {SizesIn, SizesOut}]
NoSnapshot == [url |-> <<>>, currentPrice |-> 0, sizes |-> <<>>]

\* the rows findFirst({where: {url: {startsWith: normalizedUrl}}}) can
\* return (it has no orderBy): product ids are positions in db.products
getProductByUrl(d, url) ==
  {k \in 1..Len(d.products) :
     StartsWith(d.products[k].url, normalizedUrl(url))}

addPriceHistory(d, id, price) ==
  [d EXCEPT !.priceHistory = Append(@, [productId |-> id, price |-> price])]

addStockSnapshot(d, id, sizes) ==
  [d EXCEPT !.stockSnapshots = Append(@, [productId |-> id, sizes |-> sizes])]

\* a price-history entry only when the price went up
PriceRose(old, data) == data.currentPrice > old.currentPrice

\* `data.currentPrice !== oldProduct.currentPrice`
PriceChanged(old, data) == data.currentPrice # old.currentPrice

\* `if (data.sizes)`: an array, also an empty one, is truthy
HasSizes(old, data) == TRUE

\* updateProduct(id, data) with the full product of a scrape
updateProduct(d, id, data) ==
  LET old == d.products[id]
      d1 == [d EXCEPT !.products[id] =
               [url |-> data.url, currentPrice |-> data.currentPrice,
                sizes |-> data.sizes]]
      d2 == IF PriceChanged(old, data)
            THEN addPriceHistory(d1, id, data.currentPrice) ELSE d1
  IN IF HasSizes(old, data) THEN addStockSnapshot(d2, id, data.sizes) ELSE d2

\* addProduct past its own lookup: prisma.product.create, then the initial
\* price-history entry and stock snapshot
createProduct(d, data) ==
  LET id == Len(d.products) + 1
      d1 == [d EXCEPT !.products =
               Append(@, [url |-> data.url, currentPrice |-> data.currentPrice,
                          sizes |-> data.sizes])]
  IN addStockSnapshot(addPriceHistory(d1, id, data.currentPrice),
                      id, data.sizes)

\* the persist step of scrapeProduct: look the URL up, update the product
\* found or add a new one; `calls` and `last` record the persists made
Persist ==
  /\ db.calls < MaxPersists
  /\ \E data \in Snapshots :
       LET found == getProductByUrl(db, data.url)
           d == [db EXCEPT !.calls = @ + 1, !.last = data]
       IN IF found = {}
          THEN db' = createProduct(d, data)
          ELSE \E id \in found : db' = updateProduct(d, id, data)
  /\ UNCHANGED <<browserInstance, live, products, st, unit>>

InitStore ==
  /\ browserInstance = NoBrowser
  /\ live = {}
  /\ products = {}
  /\ st = [p \in Procs |-> InitProc(<<>>, 0)]
  /\ unit = NoUnit
  /\ db = NoDb

SpecStore == InitStore /\ [][Persist]_vars

(* ======================= concurrent persists ========================== *)
(* Two scrapeProduct calls, one in each request, in their persist step at   *)
(* the same time.  Every `await prisma...` of getProductByUrl, addProduct   *)
(* and updateProduct is one step, and the steps of the two calls            *)
(* interleave freely; the database calls complete.  `unit` holds each       *)
(* call's position, its fullProduct, the product id it works on, the        *)
(* oldProduct price it read and the id it called updateProduct with.        *)

\* the fullProducts of the two calls: one product page, with or without a
\* query string in the URL
PersistSnapshots ==
  [url : {UrlA, UrlAQuery}, currentPrice : Prices, sizes : {SizesIn, SizesOut}]

NoPersist ==
  [pc |-> "idle", data |-> NoSnapshot, id |-> 0, oldPrice |-> 0,
   updated |-> 0]

\* the call of request p, and the state after its step
Call(p) == unit.call[p]
Step(p, call, d) ==
  /\ unit' = [unit EXCEPT !.call[p] = call]
  /\ db' = d
  /\ UNCHANGED <<browserInstance, live, products, st>>

\* `if (existingProduct) updateProduct(existingProduct.id, ...)`, in
\* scrapeProduct and again in addProduct; otherwise go on
Existing(p, found, otherwise) ==
  IF found = {}
  THEN Step(p, [Call(p) EXCEPT !.pc = otherwise], db)
  ELSE \E id \in found :
         Step(p, [Call(p) EXCEPT !.pc = "findUnique", !.id = id,
                                 !.updated = id], db)

\* scrapeProduct reaches `if (saveToStorage)` with its fullProduct
StartPersist(p) ==
  /\ Call(p).pc = "idle"
  /\ \E data \in PersistSnapshots :
       Step(p, [Call(p) EXCEPT !.pc = "getProductByUrl", !.data = data], db)

\* scrapeProduct: `await getProductByUrl(url)`
ScrapeLookup(p) ==
  /\ Call(p).pc = "getProductByUrl"
  /\ Existing(p, getProductByUrl(db, Call(p).data.url), "addProduct")

\* addProduct: `await getProductByUrl(product.url)`
AddProductLookup(p) ==
  /\ Call(p).pc = "addProduct"
  /\ Existing(p, getProductByUrl(db, Call(p).data.url), "create")

\* addProduct: `await prisma.product.create(...)`, the sizes with it
ProductCreate(p) ==
  /\ Call(p).pc = "create"
  /\ Step(p, [Call(p) EXCEPT !.pc = "addPriceHistory",
                             !.id = Len(db.products) + 1],
          [db EXCEPT !.products =
             Append(@, [url |-> Call(p).data.url,
                        currentPrice |-> Call(p).data.currentPrice,
                        sizes |-> Call(p).data.sizes])])

\* updateProduct: `await prisma.product.findUnique(...)` reads oldProduct
FindUnique(p) ==
  /\ Call(p).pc = "findUnique"
  /\ Step(p, [Call(p) EXCEPT
                !.pc = "update",
                !.oldPrice = db.products[Call(p).id].currentPrice], db)

\* updateProduct: `await prisma.product.update(...)`
ProductUpdate(p) ==
  /\ Call(p).pc = "update"
  /\ Step(p, [Call(p) EXCEPT !.pc = "deleteMany"],
          [db EXCEPT !.products[Call(p).id].url = Call(p).data.url,
                     !.products[Call(p).id].currentPrice =
                        Call(p).data.currentPrice])

\* updateProduct: `await prisma.productSize.deleteMany(...)`
SizesDeleteMany(p) ==
  /\ Call(p).pc = "deleteMany"
  /\ Step(p, [Call(p) EXCEPT !.pc = "createMany"],
          [db EXCEPT !.products[Call(p).id].sizes = <<>>])

\* updateProduct: `await prisma.productSize.createMany(...)`, then the test
\* `data.currentPrice !== oldProduct.currentPrice`
SizesCreateMany(p) ==
  /\ Call(p).pc = "createMany"
  /\ Step(p, [Call(p) EXCEPT
                !.pc = IF Call(p).data.currentPrice # Call(p).oldPrice
                       THEN "addPriceHistory" ELSE "addStockSnapshot"],
          [db EXCEPT !.products[Call(p).id].sizes = @ \o Call(p).data.sizes])

\* `await addPriceHistory(id, currentPrice)`, of addProduct and updateProduct
PriceHistoryCreate(p) ==
  /\ Call(p).pc = "addPriceHistory"
  /\ Step(p, [Call(p) EXCEPT !.pc = "addStockSnapshot"],
          addPriceHistory(db, Call(p).id, Call(p).data.currentPrice))

\* `await addStockSnapshot(id, sizes)`, after which the call returns
StockSnapshotCreate(p) ==
  /\ Call(p).pc = "addStockSnapshot"
  /\ Step(p, [Call(p) EXCEPT !.pc = "done"],
          addStockSnapshot(db, Call(p).id, Call(p).data.sizes))

\* the store is empty or holds the product of an earlier scrape
InitPersists ==
  /\ browserInstance = NoBrowser
  /\ live = {}
  /\ products = {}
  /\ st = [p \in Procs |-> InitProc(<<>>, 0)]
  /\ unit = [op |-> "persists", call |-> [p \in Procs |-> NoPersist]]
  /\ \/ db = NoDb
     \/ \E data \in PersistSnapshots : db = createProduct(NoDb, data)

NextPersists ==
  \E p \in Procs :
    \/ StartPersist(p) \/ ScrapeLookup(p) \/ AddProductLookup(p)
    \/ ProductCreate(p) \/ FindUnique(p) \/ ProductUpdate(p)
    \/ SizesDeleteMany(p) \/ SizesCreateMany(p) \/ PriceHistoryCreate(p)
    \/ StockSnapshotCreate(p)

SpecPersists == InitPersists /\ [][NextPersists]_vars

(* ====================== the browser module alone ====================== *)
(* getBrowser and closeBrowser of lib/scraper/browser.ts called by one      *)
(* caller, each call finished before the next begins; a browser process may *)
(* exit on its own between two calls.  `unit` holds the last call and the   *)
(* calls and exits so far.                                                  *)

NoCall ==
  [op |-> "none", calls |-> 0, log |-> <<>>, out |-> NoBrowser,
   reused |-> FALSE, launchFailed |-> FALSE]

\* the record of a finished call
Called(op, out, reused, launchFailed) ==
  [op |-> op, calls |-> unit.calls + 1, log |-> Append(unit.log, op),
   out |-> out, reused |-> reused, launchFailed |-> launchFailed]

\* a singleton test that finds no browser to reuse
NeverConnected(inst, processes) == FALSE

\* `browserInstance && browserInstance.isConnected()`
Connected(inst, processes) == inst # NoBrowser /\ inst \in processes

\* one whole getBrowser call
GetBrowserCall ==
  /\ unit.calls < MaxCalls
  /\ IF Connected(browserInstance, live)
     THEN /\ unit' = Called("getBrowser", browserInstance, TRUE, FALSE)
          /\ UNCHANGED <<browserInstance, live>>
     ELSE \/ /\ FreeIds # {}
             /\ live' = live \cup {NewId}
             /\ browserInstance' = NewId
             /\ unit' = Called("getBrowser", NewId, FALSE, FALSE)
          \/ /\ unit' = Called("getBrowser", NoBrowser, FALSE, TRUE)
             /\ UNCHANGED <<browserInstance, live>>
  /\ UNCHANGED <<products, st, db>>

\* one whole closeBrowser call: nothing to do, close() resolves, or close()
\* rejects and the singleton stays
CloseBrowserCall ==
  /\ unit.calls < MaxCalls
  /\ unit' = Called("closeBrowser", NoBrowser, FALSE, FALSE)
  /\ IF browserInstance = NoBrowser
     THEN UNCHANGED <<browserInstance, live>>
     ELSE \/ /\ live' = live \ {browserInstance}
             /\ browserInstance' = ClearedInstance(browserInstance)
          \/ UNCHANGED <<browserInstance, live>>
  /\ UNCHANGED <<products, st, db>>

\* the recorded browser's process exits without closeBrowser
Disconnect ==
  /\ browserInstance \in live
  /\ live' = live \ {browserInstance}
  /\ unit' = [unit EXCEPT !.op = "disconnect", !.out = NoBrowser,
                          !.log = Append(@, "disconnect"),
                          !.reused = FALSE, !.launchFailed = FALSE]
  /\ UNCHANGED <<browserInstance, products, st, db>>

InitBrowser ==
  /\ browserInstance = NoBrowser
  /\ live = {}
  /\ products = {}
  /\ st = [p \in Procs |-> InitProc(<<>>, 0)]
  /\ unit = NoCall
  /\ db = NoDb

NextBrowser == GetBrowserCall \/ CloseBrowserCall \/ Disconnect

SpecBrowser == InitBrowser /\ [][NextBrowser]_vars

(* ========================= one batch alone ============================ *)
(* scrapeProducts run with no other request in the process, by the cron    *)
(* handler or by a caller that passes its own delayBetween and              *)
(* saveToStorage options.  `unit` holds the delayBetween option, the number and the last  *)
(* length of the delays made, and the number of browsing contexts that      *)
(* scrapeProduct calls of the batch left open when they returned; such a    *)
(* context lives until its browser is closed.                               *)

\* the delayBetween of the cron handler, the default of scrapeProducts, and
\* two narrow ranges
DelayRanges ==
  {[min |-> 5000, max |-> 15000], [min |-> 5000, max |-> 10000],
   [min |-> 1, max |-> 3], [min |-> 0, max |-> 0]}

\* a delay drawn from a range one too wide
randomDelayWide(min, max, k) == (k * (max - min + 2)) \div RandomSteps + min

\* Math.floor(Math.random() * (max - min + 1)) + min, where Math.random()
\* returned k / RandomSteps, a number from 0 up to but not including 1
randomDelay(min, max, k) == (k * (max - min + 1)) \div RandomSteps + min

NoLeak(delayBetween) ==
  [op |-> "batch", leaked |-> 0, delays |-> 0, delay |-> 0,
   delayBetween |-> delayBetween]

\* the POST handler is not running
Idle == [InitProc(<<>>, 0) EXCEPT !.pc = "done"]

\* contexts left behind after the step: none once a browser was closed, one
\* more when scrapeProduct has just returned with its context still open
LeakedAfter ==
  IF live' # live /\ live' \subseteq live THEN 0
  ELSE IF st'[Cron].last.done /\ ~st[Cron].last.done /\ st'[Cron].last.leaked
  THEN unit.leaked + 1
  ELSE unit.leaked

\* the step is `await randomDelay(delayBetween.min, delayBetween.max)`
Delaying == st[Cron].pc = "delay"

InitBatch ==
  /\ browserInstance = NoBrowser
  /\ live = {}
  /\ db = NoDb
  /\ \E batch \in UrlLists, delayBetween \in DelayRanges,
        saveToStorage \in BOOLEAN :
       /\ unit = NoLeak(delayBetween)
       /\ products = {batch[k] : k \in 1..Len(batch)}
       /\ st = [p \in Procs |->
                  IF p = Cron
                  THEN [InitProc(batch, Len(batch))
                          EXCEPT !.saveToStorage = saveToStorage]
                  ELSE Idle]

NextBatch ==
  /\ \/ CronStart(Cron)
     \/ ScrapeStart(Cron) \/ LaunchDone(Cron) \/ CreateContext(Cron)
     \/ CreatePage(Cron) \/ Navigate(Cron) \/ Content(Cron)
     \/ CloseContext(Cron) \/ GetProductByUrl(Cron) \/ Upsert(Cron)
     \/ Delay(Cron) \/ CloseBrowser(Cron) \/ Closing(Cron)
  /\ \E k \in 0..(RandomSteps - 1) :
       unit' = [unit EXCEPT
                  !.leaked = LeakedAfter,
                  !.delays = IF Delaying THEN @ + 1 ELSE @,
                  !.delay = IF Delaying
                            THEN randomDelay(unit.delayBetween.min,
                                             unit.delayBetween.max, k)
                            ELSE @]
  /\ UNCHANGED db

SpecBatch == InitBatch /\ [][NextBatch]_vars

(* ============================ properties ============================== *)
Codes == {"AKAMAI_BLOCKED", "AKAMAI_CHALLENGE", "TIMEOUT", "PARSE_ERROR",
          "UNKNOWN"}

\* scrapeProduct has just returned in request p
Returned(p) == st[p].last.done

\* scrapeProducts has returned and the handler still holds its result
HoldsResults == st[Cron].returned /\ st[Cron].cbSite = "cronAfter"

\* scrapeProducts has finished, by returning or by throwing
BatchFinished == st[Cron].returned \/ st[Cron].escaped

\* the batch loop of the cron request is over: the closeBrowser call of
\* scrapeProducts is next or running, or scrapeProducts has returned
LoopOver ==
  \/ st[Cron].pc \in {"closeBrowser", "closing"} /\ st[Cron].cbSite = "batch"
  \/ HoldsResults

(* C1: while no live browser exists, concurrent getBrowser calls launch    *)
(* exactly one browser process: in no reachable state do two launched,     *)
(* unclosed browser processes exist.                                       *)
C1_AtMostOneBrowser == Cardinality(live) <= 1

(* C2: closeBrowser is never executed mid-batch: the browser is never      *)
(* closed while a scrape of the running batch holds an open context on it. *)
C2_NoCloseMidBatch == st[Cron].cstate # "killed"

(* C3: scrapeProduct and scrapeProducts always return a result and never   *)
(* let an exception escape, whichever step fails, closeBrowser at the end  *)
(* of a batch included.                                                    *)
C3_NoExceptionEscapes == \A p \in Procs : ~st[p].escaped

(* C4: for every input list, the empty one included, scrapeProducts       *)
(* finishes by returning a list that has exactly one result per input URL, *)
(* result k being what scrapeProduct returned for urls[k].                 *)
ResultsInOrder ==
  LET r == st[Cron] IN
  /\ HoldsResults => Len(r.results) = Len(r.urls)
  /\ Len(r.results) = Len(r.attempts)
  /\ \A k \in 1..Len(r.results) :
       /\ k <= Len(r.urls)
       /\ r.attempts[k].url = r.urls[k]
       /\ r.results[k] = r.attempts[k].result

C4_OneResultPerUrl ==
  /\ BatchFinished => st[Cron].returned
  /\ ResultsInOrder

(* C5: failure isolation: a failed item, whatever its error code, does not *)
(* end the batch: every later URL is still attempted, by a scrapeProduct   *)
(* call that starts from fresh locals.                                     *)
C5_FailureIsolation ==
  LET r == st[Cron] IN
  /\ LoopOver => Len(r.attempts) = Len(r.urls)
  /\ \A k \in 1..Len(r.attempts) :
       ~r.attempts[k].result.success /\ k < Len(r.urls)
         => r.i > k \/ (r.i = k /\ r.pc = "delay")
  /\ r.pc = "scrape" => r = [FreshScrape(r) EXCEPT !.last = r.last]

C5_Witness ==
  /\ Len(st[Cron].attempts) = 2
  /\ st[Cron].attempts[1].result = Failed("UNKNOWN")
  /\ st[Cron].attempts[1].url = ZaraProductUrl
  /\ st[Cron].attempts[2].result.success

(* C6: when scrapeProducts finishes, closeBrowser has run and the         *)
(* singleton is null, whatever the outcomes of the items were.             *)
C6_BrowserReleased ==
  BatchFinished =>
    st[Cron].closeRan /\ st[Cron].retInstance = NoBrowser

(* C7: whenever navigation is classified AKAMAI_BLOCKED or                 *)
(* AKAMAI_CHALLENGE, saveSession has been called before scrapeProduct      *)
(* returns.                                                                *)
C7_SessionSavedWhenBlocked ==
  \A p \in Procs :
    Returned(p) /\ st[p].last.nav \in {"AKAMAI_BLOCKED", "AKAMAI_CHALLENGE"}
      => st[p].last.saves >= 1

C7_Witness ==
  \E p \in Procs :
    /\ Returned(p)
    /\ st[p].last.nav = "AKAMAI_CHALLENGE"
    /\ st[p].last.result = Failed("AKAMAI_CHALLENGE")
    /\ st[p].last.saves >= 1

(* C8: if a step after browser acquisition raises (context creation with   *)
(* its init-script step, page creation, content capture, parsing,          *)
(* storage), scrapeProduct returns UNKNOWN and every context created       *)
(* during the call has been closed before it returns.  Stated here for the *)
(* calls in which no close of a context failed.                            *)
StepsAfterAcquisition ==
  {"newContext", "addInitScript", "createPage", "content", "debugWrite",
   "storage"}

C8_ContextClosedOnException ==
  \A p \in Procs :
    /\ Returned(p)
    /\ st[p].last.raisedAt \in StepsAfterAcquisition
    /\ ~st[p].last.cleanupFailed
    => /\ st[p].last.result = Failed("UNKNOWN")
       /\ ~st[p].last.leaked

(* C9: when navigateWithStealth returns non-success, scrapeProduct saves   *)
(* the session and returns the navigation classification as errorCode,     *)
(* also when the session save or the context close fails.                  *)
C9_NavigationClassification ==
  \A p \in Procs :
    Returned(p) /\ st[p].last.nav \in NavErrors
      => /\ st[p].last.saves >= 1
         /\ st[p].last.result = Failed(NavErrorCode(st[p].last.nav))

(* C10: for HTML that matches none of the name selectors parseZaraProduct  *)
(* returns 'Unknown Product' and scrapeProduct returns PARSE_ERROR, also   *)
(* when writing the debug HTML file fails.                                 *)
C10_UnknownNameIsParseError ==
  /\ parseZaraProduct(HtmlNoName) = "Unknown Product"
  /\ \A p \in Procs :
       Returned(p) /\ st[p].last.html = HtmlNoName
         => st[p].last.result = Failed("PARSE_ERROR")

(* C11: a rejected scrape performs no network or resource activity: for a  *)
(* URL of no known store, of a store without an implemented parser, or of  *)
(* zara.com without the product pattern, scrapeProduct returns a failure   *)
(* in its first step, calls neither getBrowser nor saveSession nor storage *)
(* and leaves the browser singleton, the browsers and the store unchanged. *)
ShouldReject(u) == u.host # "zara" \/ ~u.product

C11_RejectedScrapeIsInert ==
  [][\A p \in Procs :
       /\ st[p].pc = "scrape"
       /\ ShouldReject(st[p].urls[st[p].i])
       /\ st'[p] # st[p]
       => /\ st'[p].last.done
          /\ ~st'[p].last.result.success
          /\ st'[p].last.saves = 0
          /\ st'[p].pc \notin {"launching", "createContext"}
          /\ UNCHANGED <<browserInstance, live, products>>]_vars

C11_Witness ==
  /\ st[Post].last.done
  /\ st[Post].last.url = ZaraOtherUrl
  /\ ~st[Post].last.result.success
  /\ browserInstance \in live

(* C12: upsert idempotence: persisting the snapshot that was persisted    *)
(* just before (same URL, same price, same sizes) appends no price-history *)
(* entry and no stock-snapshot entry.                                      *)
C12_UpsertIdempotent ==
  [][/\ db'.calls = db.calls + 1
     /\ db.calls >= 1
     /\ db'.last = db.last
     => /\ db'.priceHistory = db.priceHistory
        /\ db'.stockSnapshots = db.stockSnapshots]_vars

(* C13: persisting a snapshot whose URL, the query string removed, is the  *)
(* URL of no stored product inserts exactly one product record and appends *)
(* exactly one price-history entry (the snapshot's price) and one stock    *)
(* snapshot (the snapshot's sizes) for it.                                 *)
SameUrl(u, v) == normalizedUrl(u) = normalizedUrl(v)

C13_NewUrlInserts ==
  [][/\ db'.calls = db.calls + 1
     /\ \A k \in 1..Len(db.products) :
          ~SameUrl(db.products[k].url, db'.last.url)
     => LET id == Len(db.products) + 1 IN
        /\ Len(db'.products) = id
        /\ db'.products[id].url = db'.last.url
        /\ db'.priceHistory =
             Append(db.priceHistory,
                    [productId |-> id, price |-> db'.last.currentPrice])
        /\ db'.stockSnapshots =
             Append(db.stockSnapshots,
                    [productId |-> id, sizes |-> db'.last.sizes])]_vars

(* C17: parseDiscount returns null or an integer d with 0 < d <= 100,      *)
(* where d is the absolute value of the first optionally-signed integer    *)
(* run of the text; null when there is no integer run or the value is      *)
(* outside (0,100]: "-20%" gives 20, "150%" null, "no discount" null.      *)
FirstIntegerRun(s) ==
  LET at == {k \in 1..Len(s) : s[k] \in Digits}
  IN IF at = {} THEN <<>>
     ELSE DigitsPrefix(Drop(s, (CHOOSE k \in at : \A j \in at : k <= j) - 1))

C17_ParseDiscountRange ==
  unit.op = "parseDiscount" =>
    LET run == IF unit.in.isNull THEN <<>> ELSE FirstIntegerRun(unit.in.chars)
        d == DigitsValue(run, 0)
    IN IF run = <<>> \/ d = 0 \/ d > 100
       THEN unit.out = Null
       ELSE unit.out = [isNull |-> FALSE, m |-> d, e |-> 0]

C17_Witness ==
  /\ unit.op = "parseDiscount"
  /\ unit.in = Text(<<"-", "2", "0", "%">>)
  /\ unit.out = [isNull |-> FALSE, m |-> 20, e |-> 0]

(* C18: parsePrice returns the denoted amount for a price text in European *)
(* convention (comma decimal, optional dot thousands separators) or in     *)
(* plain dot-decimal convention, with optional currency symbols and        *)
(* whitespace, and null for empty, null or unparseable input.              *)
AllDigits(s) == s # <<>> /\ DigitsPrefix(s) = s

RECURSIVE GroupedDigits(_)
\* the digits of .ddd.ddd... , <<>> when the text is not of that form
GroupedDigits(s) ==
  IF Len(s) < 4 \/ s[1] # "." \/ ~AllDigits(SubSeq(s, 2, 4)) THEN <<>>
  ELSE IF Len(s) = 4 THEN SubSeq(s, 2, 4)
  ELSE IF GroupedDigits(Drop(s, 4)) = <<>> THEN <<>>
  ELSE SubSeq(s, 2, 4) \o GroupedDigits(Drop(s, 4))

\* the position of the comma of a text with exactly one comma, else 0
CommaAt(s) ==
  LET at == {k \in 1..Len(s) : s[k] = ","}
  IN IF Cardinality(at) = 1 THEN CHOOSE k \in at : TRUE ELSE 0

\* the amount a text without currency and whitespace denotes; null when it
\* is in neither convention
Amount(s) ==
  LET c == CommaAt(s)
      whole == IF c = 0 THEN s ELSE SubSeq(s, 1, c - 1)
      frac == IF c = 0 THEN <<>> ELSE Drop(s, c)
      lead == DigitsPrefix(whole)
      groups == Drop(whole, Len(lead))
  IN IF c > 0 /\ AllDigits(frac) /\ AllDigits(whole)
     THEN Num(DigitsValue(whole \o frac, 0), Len(frac))
     ELSE IF /\ c > 0 /\ AllDigits(frac) /\ Len(lead) \in 1..3
             /\ GroupedDigits(groups) # <<>>
     THEN Num(DigitsValue(lead \o GroupedDigits(groups) \o frac, 0), Len(frac))
     ELSE IF c = 0 /\ AllDigits(s) THEN Num(DigitsValue(s, 0), 0)
     ELSE IF /\ c = 0 /\ lead # <<>> /\ groups # <<>> /\ Head(groups) = "."
             /\ AllDigits(Tail(groups))
     THEN Num(DigitsValue(lead \o Tail(groups), 0), Len(Tail(groups)))
     ELSE Null

C18_ParsePriceDenotes ==
  unit.op = "parsePrice" =>
    IF unit.in.isNull \/ DigitCount(unit.in.chars) = 0
    THEN unit.out = Null
    ELSE LET amount ==
               Amount(RemoveChars(RemoveCodes(unit.in.chars), {" ", "$"}))
         IN ~amount.isNull => unit.out = amount

(* C19: detectStore returns a retailer only when the URL's hostname holds   *)
(* that retailer's domain, and null otherwise; a retailer domain that       *)
(* appears only in the path or the query selects nothing.                   *)
C19_DetectStoreByHostname ==
  unit.op = "detectStore" =>
    unit.out = (IF unit.in.host \in BrandSet THEN unit.in.host ELSE NoStore)

(* C14: every size entry that extractSizes produces, on the primary path,   *)
(* under the class heuristic for an unrecognised marker and on the older    *)
(* fallback path, has lowStock = true only when available = true.           *)
C14_LowStockIsAvailable ==
  unit.op = "extractSizes" =>
    \A k \in 1..Len(unit.out) :
      unit.out[k].lowStock = "true" => unit.out[k].available

\* a primary-path page with a low-on-stock size and a size whose marker is
\* not recognised
C14_Witness ==
  /\ unit.op = "extractSizes"
  /\ Len(unit.in.primary) = 2
  /\ unit.in.primary[1].action = LowOnStock
  /\ unit.in.primary[1].disabled
  /\ unit.in.primary[2].action = ""
  /\ Len(unit.out) = 2
  /\ unit.out[1].lowStock = "true" /\ unit.out[1].available
  /\ unit.out[2].lowStock = "undefined"

\* |a - b| <= 1 for two integers
WithinOne(a, b) == a - b <= 1 /\ b - a <= 1

(* C15: every product snapshot in which the reference (old) price and the   *)
(* current price are both present and the reference price is the greater    *)
(* has a discount, and that discount differs by at most 1 from              *)
(* round((reference - current) / reference * 100).                          *)
C15_DiscountMatchesPrices ==
  unit.op = "fullProduct" =>
    LET snapshot == unit.out
    IN (~snapshot.oldPrice.isNull
        /\ Less(snapshot.currentPrice, snapshot.oldPrice)) =>
         /\ ~snapshot.discount.isNull
         /\ WithinOne(snapshot.discount.m,
                      PercentOff(snapshot.oldPrice, snapshot.currentPrice).m)

(* C16: every product snapshot has currentPrice >= 0, whatever price text   *)
(* the page holds, a text with a leading minus sign included.               *)
C16_CurrentPriceNonNegative ==
  unit.op = "fullProduct" => unit.out.currentPrice.m >= 0

(* C20: loadSession never raises; when the session file is missing,         *)
(* unreadable or corrupt, or the sessions directory cannot be created, it   *)
(* returns undefined and createContext goes on with a fresh context.        *)
C20_LoadSessionNeverRaises ==
  unit.op = "loadSession" =>
    /\ ~unit.out.raised
    /\ unit.in.file # "valid" =>
         unit.out.session = "undefined" /\ unit.out.context = "fresh"

(* C21: saveSession never raises: a failure to obtain the storage state, to *)
(* create the sessions directory or to write the file is swallowed, and     *)
(* closeContext goes on to close the context after every save attempt.      *)
C21_SaveSessionNeverRaises ==
  unit.op = "closeContext" /\ unit.out.attempted =>
    ~unit.out.raised /\ unit.out.closeCalled

\* the body navigateWithStealth looked at last: the one after the wait when
\* the first look found a marker
LastBody == IF unit.in.html = {} THEN unit.in.html ELSE unit.in.newHtml
\* page.goto answered with a status other than 403
ReachedChallengeTest ==
  /\ unit.op = "navigate"
  /\ unit.in.goto.kind = "response"
  /\ unit.in.goto.status # 403

(* C22: navigateWithStealth returns AKAMAI_CHALLENGE whenever the page body *)
(* still holds one of the markers bm-verify, akam-logo, _sec/verify after   *)
(* the settle wait and the one re-check, and returns success only when no   *)
(* marker is present at the re-check.                                       *)
C22_ChallengeDetected ==
  ReachedChallengeTest =>
    /\ LastBody # {} =>
         unit.out.navResult.error.code = "AKAMAI_CHALLENGE"
    /\ unit.out.navResult.success => LastBody = {}

(* C23: when page.goto fails because the navigation ran out of time,        *)
(* navigateWithStealth returns TIMEOUT and scrapeProduct errorCode TIMEOUT, *)
(* for every form of the timeout message, 'Timeout' with a capital T        *)
(* included; any other navigation exception gives UNKNOWN with its message. *)
C23_TimeoutClassified ==
  unit.op = "navigate" /\ unit.in.goto.kind = "throws" =>
    IF unit.in.goto.timedOut
    THEN /\ unit.out.navResult.error.code = "TIMEOUT"
         /\ unit.out.errorCode = "TIMEOUT"
    ELSE /\ unit.out.navResult.error.message = unit.in.goto.message
         /\ unit.out.errorCode = "UNKNOWN"

(* C24: the navigation timeout in force during scrapeProduct(url,           *)
(* {timeout: t}) is t: page.goto is bounded by the timeout of the scrape    *)
(* options and by no other value.                                           *)
C24_TimeoutFromOptions ==
  unit.op = "navigate" => unit.out.gotoTimeout = unit.in.timeout

(* C25: POST /api/scrape answers every scrape outcome with its status:      *)
(* AKAMAI_BLOCKED and AKAMAI_CHALLENGE 403, TIMEOUT 504, PARSE_ERROR 422,   *)
(* UNKNOWN and any other code 500, success 200.  Once scrapeProduct has     *)
(* returned, each step of the handler still holds the result, or responds   *)
(* with the status of that result, or enters the catch block, whose         *)
(* response is 500, with a result whose status is 500.                      *)
C25_StatusOfOutcome ==
  [][\A p \in Posts :
       /\ st[p].cbSite = "post"
       /\ st'[p] # st[p]
       => \/ /\ st'[p].pc = "done"
             /\ st'[p].status = StatusOf(st[p].results[1])
          \/ /\ st'[p].cbSite = "post"
             /\ st'[p].results = st[p].results
          \/ /\ st'[p].cbSite = "postCatch"
             /\ StatusOf(st[p].results[1]) = 500]_vars

\* scrapeProduct of request p has loaded its site's session in createContext
\* and has not yet come back from the closeContext that saves it
HoldsSession(p) ==
  st[p].pc \in {"createPage", "navigate", "content", "closeContext"}

(* C26: two scrapeProduct calls for the same site never overlap between     *)
(* loading the site's session and saving it: concurrent scrapes of one site *)
(* are serialized.                                                          *)
C26_SessionUseSerialized ==
  \A p, q \in Procs :
    p # q /\ HoldsSession(p) /\ HoldsSession(q) => st[p].store # st[q].store

\* the scrapeProduct activation that request p last finished got its
\* browser from getBrowser: its URL was accepted and the launch did not fail
ReachedBrowserReady(p) ==
  st[p].last.valid /\ st[p].last.raisedAt # "launch"

(* C27: Rejected and Failed are distinct outcomes: a result with a failure  *)
(* kind AKAMAI_BLOCKED, AKAMAI_CHALLENGE, TIMEOUT, PARSE_ERROR or UNKNOWN   *)
(* comes only from a run that acquired the browser, so a run rejected for   *)
(* an unknown store or an invalid URL is told apart from Failed UNKNOWN.    *)
C27_RejectedIsNotFailed ==
  \A p \in Procs :
    Returned(p) /\ st[p].last.result.errorCode \in Codes
      => ReachedBrowserReady(p)

(* C28: getBrowser is an idempotent singleton in sequential use: while the  *)
(* recorded browser is connected, every getBrowser call returns that same   *)
(* instance and launches nothing; after closeBrowser or a disconnect, the   *)
(* next getBrowser makes one launch, whose process it records and returns.  *)
C28_IdempotentSingleton ==
  [][unit'.op = "getBrowser" /\ unit'.calls = unit.calls + 1 =>
       IF browserInstance \in live
       THEN /\ unit'.out = browserInstance
            /\ UNCHANGED <<browserInstance, live>>
       ELSE \/ /\ unit'.launchFailed
               /\ UNCHANGED <<browserInstance, live>>
            \/ /\ unit'.out \notin live \cup {browserInstance, NoBrowser}
               /\ live' = live \cup {unit'.out}
               /\ browserInstance' = unit'.out]_vars

\* the third getBrowser call in a row has returned the browser that the
\* first one launched
C28_Witness ==
  /\ unit.log = <<"getBrowser", "getBrowser", "getBrowser">>
  /\ unit.reused
  /\ unit.out = browserInstance
  /\ live = {browserInstance}

\* the browsing contexts opened by the batch that exist: those that earlier
\* items left open and the one the current item holds
BatchContexts ==
  unit.leaked + (IF st[Cron].cstate = "open" THEN 1 ELSE 0)

(* C29: the items of one scrapeProducts run are processed one after the     *)
(* other, item i+1 starting only when item i's scrapeProduct has returned,  *)
(* so at most one browsing context opened by the batch exists at any time.  *)
C29_OneContextAtATime == BatchContexts <= 1

(* C30: a batch of n URLs makes exactly max(n-1, 0) inter-request delays,   *)
(* one between each pair of consecutive attempts and none after the last,   *)
(* and each delay is a whole number of milliseconds d with                  *)
(* delayBetween.min <= d <= delayBetween.max.                               *)
C30_DelaysBetweenAttempts ==
  LET n == Len(st[Cron].urls) IN
  /\ unit.delays = st[Cron].i - 1
  /\ BatchFinished => unit.delays = IF n = 0 THEN 0 ELSE n - 1
  /\ unit.delays > 0 =>
       /\ unit.delay \in Int
       /\ unit.delayBetween.min <= unit.delay
       /\ unit.delay <= unit.delayBetween.max

\* a batch of two URLs has finished after one delay of the greatest length
C30_Witness ==
  /\ BatchFinished
  /\ Len(st[Cron].urls) = 2
  /\ unit.delays = 1
  /\ unit.delayBetween.min < unit.delayBetween.max
  /\ unit.delay = unit.delayBetween.max

\* the text of the first candidate that yields a non-empty value
RECURSIVE FirstNonEmpty(_, _)
FirstNonEmpty(found, k) ==
  IF k > Len(found) THEN "null"
  ELSE IF found[k] \notin {NoElement, ""} THEN found[k]
  ELSE FirstNonEmpty(found, k + 1)

(* C31: for each text field, extraction walks the ordered candidate        *)
(* selectors and returns the text of the first candidate that yields a     *)
(* non-empty value; a candidate that matches an element with empty text    *)
(* does not stop later candidates from being tried.                        *)
C31_FirstNonEmptyCandidate ==
  unit.op = "extractText" => unit.out = FirstNonEmpty(unit.in, 1)

\* availability by the structural state of the list item alone
StructurallyAvailable(item) == ~item.disabled /\ item.enabled

(* C32: size extraction keeps every size entry whose state marker is       *)
(* unrecognised and derives its availability from the enabled/disabled     *)
(* CSS state, on the primary path and on the fallback path alike; the      *)
(* output lists the size entries in document order.                        *)
C32_UnrecognisedMarkerKept ==
  unit.op = "extractSizes" =>
    LET items == IF Len(unit.in.primary) > 0 THEN unit.in.primary
                 ELSE unit.in.fallback
        entries == Labelled(items)
    IN /\ Len(unit.out) = Len(entries)
       /\ \A k \in 1..Len(entries) :
            /\ unit.out[k].size = entries[k].label
            /\ entries[k].action \notin {InStock, LowOnStock, OutOfStock} =>
                 unit.out[k].available = StructurallyAvailable(entries[k])

(* C33: when the page's discount text parses to a value in (0,100], the    *)
(* snapshot's discount is that value whatever the prices are; otherwise,   *)
(* when the current and the reference price are both known and the         *)
(* reference is the greater, it is round((reference - current) /           *)
(* reference * 100); otherwise it is null.                                 *)
C33_DiscountReconciled ==
  unit.op = "fullProduct" =>
    LET explicit == parseDiscount(unit.in.discountText)
        current == parsePrice(unit.in.currentPriceText)
        reference == parsePrice(unit.in.oldPriceText)
    IN IF ~explicit.isNull THEN unit.out.discount = explicit
       ELSE IF ~current.isNull /\ ~reference.isNull /\ Less(current, reference)
       THEN reference.m # 0 =>
              unit.out.discount = PercentOff(reference, current)
       ELSE unit.out.discount.isNull

(* C34: scrapeProduct reads or writes the storage gateway only in runs     *)
(* where navigation succeeded, the extracted name passed validation and    *)
(* saveToStorage is true; in every rejected or failed run, and in every    *)
(* run with saveToStorage = false, the stored data are unchanged.          *)
C34_StorageOnlyWhenPersisting ==
  LET run == st[Cron].last IN
  Returned(Cron) =>
    /\ run.storage # "none" =>
         /\ run.nav = "OK"
         /\ parseZaraProduct(run.html) # "Unknown Product"
         /\ st[Cron].saveToStorage
    /\ ~run.result.success \/ ~st[Cron].saveToStorage =>
         run.storage # "written"

(* C35: in every execution of scrapeProduct, closeContext, and with it the *)
(* session save and context.close, is invoked at most once for the         *)
(* context it opened: on the success path, the navigation-failure path,    *)
(* the parse-error path and the exception path alike.                      *)
C35_CloseContextAtMostOnce ==
  \A p \in Procs : Returned(p) => st[p].last.saves <= 1

(* C36: no browser process is orphaned: in every interleaving of           *)
(* getBrowser and closeBrowser calls, every launched browser that has not  *)
(* been closed is the one recorded in browserInstance, so a later          *)
(* closeBrowser closes every live process.                                 *)
C36_NoOrphanedBrowser == \A b \in live : b = browserInstance

\* both persists have returned after calling updateProduct with product id
BothUpdated(id) ==
  \A p \in Procs : Call(p).pc = "done" /\ Call(p).updated = id

(* C37: after any set of updateProduct calls on the same product has       *)
(* completed, in any interleaving of their steps, the product's stored     *)
(* size list equals the sizes argument of exactly one of those calls,      *)
(* never a union or duplication of entries from several calls.             *)
C37_SizesOfOneCall ==
  \A id \in 1..Len(db.products) :
    BothUpdated(id) =>
      \E p \in Procs : db.products[id].sizes = Call(p).data.sizes

(* C39: the store never holds two product records for the same URL,        *)
(* compared with the query string removed, after any sequence or           *)
(* interleaving of persisting scrapes, two concurrent scrapes of the same  *)
(* not-yet-tracked URL included.                                           *)
C39_OneRecordPerUrl ==
  \A j, k \in 1..Len(db.products) :
    j # k => ~SameUrl(db.products[j].url, db.products[k].url)

\* the positions of the price-history entries of product id, oldest first
HistoryOf(id) ==
  {k \in 1..Len(db.priceHistory) : db.priceHistory[k].productId = id}
\* the most recent of them
Latest(entries) == CHOOSE k \in entries : \A j \in entries : j <= k

JsonMatches(d, url) ==
  {k \in 1..Len(d.products) : SameUrl(d.products[k].url, url)}

(* C40: the database getProductByUrl agrees with the JSON-store            *)
(* getProductByUrl on every store content and input: it returns a product  *)
(* only if that product's URL with the query string removed equals the     *)
(* input URL with the query string removed.                                *)
C40_LookupByExactUrl ==
  \A url \in StoredUrls :
    /\ getProductByUrl(db, url) \subseteq JsonMatches(db, url)
    /\ getProductByUrl(db, url) = {} <=> JsonMatches(db, url) = {}

====
